---------------------------- MODULE Spec2Model ----------------------------
(***************************************************************************)
(* Certificate revocation lifecycle engine of Over18Certifier              *)
(* (src/unnamed/part_003, the module imported as '@/lib/certifier').       *)
(*                                                                         *)
(* The engine runs on a single-threaded event loop.  An async function     *)
(* runs without interruption up to its next `await`; every action below is *)
(* one such uninterrupted segment.  Continuations of settled promises are  *)
(* microtasks and run before the completion of any ledger I/O.             *)
(*                                                                         *)
(* Spec covers the engine with the wallet initialised (getWallet returns   *)
(* the singleton), a ledger whose answer tells what it did (a spend that   *)
(* returns no txid or throws has not spent the output, and an output is    *)
(* spent at most once), a Signer that hands out a new serial number per    *)
(* certificate, and file writes that succeed.  The store file may be       *)
(* missing, unparseable or an empty mapping when the process starts.       *)
(***************************************************************************)
EXTENDS Integers, Sequences, FiniteSets, TLC

(***************************************************************************)
(* Bounds of the model                                                     *)
(***************************************************************************)
NumProcs == 2          \* concurrent request handlers
MaxTx == 3             \* ledger transactions accepted in one run
MaxSerial == 2         \* certificates signed in one run

Procs == 1..NumProcs

(***************************************************************************)
(* Values                                                                  *)
(***************************************************************************)
\* The transaction id made of 64 zero hex characters ('00'.repeat(32)).
ZeroTxid == 0
\* Transaction ids the ledger hands out.
Txids == 1..MaxTx
\* Serial numbers the Signer hands out; UnknownSerial is never handed out.
UnknownSerial == 0
Serials == 1..MaxSerial
NoSerial == -1
NoTxid == -1

\* `${txid}.0` : an outpoint is a transaction id and an output index.
Outpoint(txid, vout) == [txid |-> txid, vout |-> vout]
DUMMY_OUTPOINT == Outpoint(ZeroTxid, 0)
NoOutpoint == Outpoint(NoTxid, 0)

\* A generator that gives the same bytes on every call.
Random_Fixed(n) == <<0>>

\* Random(32): the preimage of the n-th commitment (fresh per commitment).
Random(n) == <<n>>
\* Utils.toHex: two hex digits per byte.
RECURSIVE toHex(_)
toHex(bytes) ==
    IF bytes = <<>> THEN <<>>
    ELSE <<Head(bytes) \div 16, Head(bytes) % 16>> \o toHex(Tail(bytes))
\* Utils.toArray(hex) without 'hex': one byte per character.
toArray_Text(hex) == hex

\* Utils.toArray(hex, 'hex'): one byte per two hex digits.
RECURSIVE toArray(_)
toArray(hex) ==
    IF Len(hex) < 2 THEN <<>>
    ELSE <<hex[1] * 16 + hex[2]>> \o toArray(Tail(Tail(hex)))
\* Hash.sha256: collision free, modelled as a tagged preimage.
sha256(bytes) == <<"sha256", bytes>>
\* Locking script OP_SHA256 <hash> OP_EQUAL and the script that pushes data.
LockingScript(hashBytes) == [op |-> "OP_SHA256 OP_EQUAL", hash |-> hashBytes]
UnlockingScript(secretBytes) == [push |-> secretBytes]

\* RevocationRecord; Undefined is the value of a missing property.
RevocationRecord(secret, outpoint, beef) ==
    [secret |-> secret, outpoint |-> outpoint, beef |-> beef]
Undefined == RevocationRecord(<<>>, NoOutpoint, <<>>)
EmptyRecords == [s \in {} |-> Undefined]

VARIABLES
    file,          \* content of .revocation-secrets.json
    ledger,        \* commitment outputs on the ledger: txid -> [lock, spent]
    nextTx,        \* next transaction id the ledger hands out
    nextSerial,    \* next serial number the Signer hands out
    writeMutex,    \* _writeMutex: the promise at the tail of the chain
    resolved,      \* promises of the chain that are resolved
    pc,            \* position of each request handler in its call
    loc,           \* locals of each call
    certs,         \* certificates signed so far: serial -> revocationOutpoint
    revokedOk,     \* serials for which revokeCertificate returned a txid
    out,           \* what the last step answered to a caller, if it did
    codes,         \* email route: the in-memory Map email -> [code, expires]
    now,           \* Date.now(), in milliseconds since the process started
    live,          \* codes stored by sendEmail and not deleted since:
                   \* email -> [code, at]
    response,      \* what the email route answered to the last request
    wallet,        \* _wallet: the wallet instance, or NoWallet
    initPromise,   \* _initPromise: the promise of initWallet, or NoPromise
    promises,      \* the promises initWallet returned, in order of creation
    wcall          \* position and result of each caller of getWallet

engineVars == <<file, ledger, nextTx, nextSerial, writeMutex, resolved, pc,
                loc, certs, revokedOk, out>>
emailVars == <<codes, now, live, response>>
walletVars == <<wallet, initPromise, promises, wcall>>
vars == <<engineVars, emailVars, walletVars>>

(***************************************************************************)
(* Email verification codes (route /api/email)                             *)
(***************************************************************************)
\* Bound on the clock: at most MaxTicks steps of one time-to-live, each
\* followed by at most one step of a millisecond.
MaxTicks == 2
TTL == 600000
Emails == {"a@x", "b@x"}

\* A JavaScript number: NaN, or the value v.
NaN == [nan |-> TRUE, v |-> 0]
Num(n) == [nan |-> FALSE, v |-> n]
StrictNotEqual_Never(a, b) == FALSE
\* `a !== b` on numbers: NaN differs from everything, itself included.
StrictNotEqual(a, b) == a.nan \/ b.nan \/ a.v # b.v

\* The `code` of a request body: a JSON number, or a JSON string given as
\* its sequence of characters.
JsonNumber(n) == [t |-> "number", v |-> n, s |-> <<>>]
JsonString(chars) == [t |-> "string", v |-> 0, s |-> chars]
Digit(c) == CASE c = "0" -> 0 [] c = "1" -> 1 [] c = "2" -> 2 [] OTHER -> -1
RECURSIVE DecimalValue(_)
DecimalValue(chars) ==
    IF chars = <<>> THEN 0
    ELSE 10 * DecimalValue(SubSeq(chars, 1, Len(chars) - 1))
         + Digit(chars[Len(chars)])
\* Number(code): a number is itself; a string of digits is its decimal
\* value (the empty string is 0); any other string is NaN.
Number(code) ==
    IF code.t = "number" THEN Num(code.v)
    ELSE IF \A i \in 1..Len(code.s) : Digit(code.s[i]) >= 0
         THEN Num(DecimalValue(code.s))
         ELSE NaN
CodeInputs ==
    {JsonNumber(12), JsonString(<<"0", "1", "2">>), JsonString(<<"1">>),
     JsonString(<<"x">>)}

NoCodes == [e \in {} |-> [code |-> NaN, expires |-> 0]]
NoLive == [e \in {} |-> [code |-> NaN, at |-> 0]]
NoResponse ==
    [type |-> "none", email |-> "", code |-> JsonNumber(0), at |-> 0,
     status |-> 0, verificationStatus |-> FALSE, sentStatus |-> FALSE,
     deletedStatus |-> FALSE, message |-> ""]
EmailInit ==
    /\ codes = NoCodes
    /\ now = 0
    /\ live = NoLive
    /\ response = NoResponse

\* codes.set(key, value) and codes.delete(key)
MapSet(m, key, value) ==
    [k \in DOMAIN m \cup {key} |-> IF k = key THEN value ELSE m[k]]
MapDelete(m, key) == [k \in DOMAIN m \ {key} |-> m[k]]
cleanExpired(m, t) ==
    [k \in {e \in DOMAIN m : ~(t > m[e].expires)} |-> m[k]]

\* The clock advances by a millisecond or by a whole time-to-live.
CanTick(d) ==
    IF d = 1 THEN now % TTL = 0 ELSE (now \div TTL) < MaxTicks
Tick(d) ==
    /\ CanTick(d)
    /\ now' = now + d
    /\ UNCHANGED <<codes, live, response>>
    /\ UNCHANGED <<engineVars, walletVars>>

MailOutcomes == {"sent", "noMessageId", "throw"}
\* type 'sendEmail': the code is stored before the mail is handed over.
SendEmail(email, code, mail) ==
    /\ codes' = MapSet(codes, email,
                       [code |-> Number(code), expires |-> now + TTL])
    /\ live' = MapSet(live, email, [code |-> Number(code), at |-> now])
    /\ response' =
         [NoResponse EXCEPT
            !.type = "sendEmail",
            !.status = IF mail = "sent" THEN 200 ELSE 400,
            !.sentStatus = (mail = "sent"),
            !.message = IF mail = "throw" THEN "Something went wrong"
                        ELSE ""]
    /\ UNCHANGED now
    /\ UNCHANGED <<engineVars, walletVars>>

VerifyFailure(email, code, message) ==
    [NoResponse EXCEPT
       !.type = "verifyCode", !.email = email, !.code = code,
       !.at = now', !.status = 400, !.message = message]
\* The expiry test of a stored entry at the second reading of the clock.
Expired(stored, t) == t > stored.expires
\* type 'verifyCode'; the handler reads the clock twice, `elapsed`
\* milliseconds apart.
VerifyCode(email, code, elapsed) ==
    /\ elapsed = 1 => CanTick(1)
    /\ now' = now + elapsed
    /\ LET cleaned == cleanExpired(codes, now)
       IN  IF email \notin DOMAIN cleaned
           THEN /\ codes' = cleaned
                /\ response' = VerifyFailure(email, code, "Code not found")
           ELSE IF Expired(cleaned[email], now')
           THEN /\ codes' = MapDelete(cleaned, email)
                /\ response' = VerifyFailure(email, code, "Code expired")
           ELSE IF StrictNotEqual(Number(code), cleaned[email].code)
           THEN /\ codes' = cleaned
                /\ response' = VerifyFailure(email, code, "Code mismatch")
           ELSE /\ codes' = cleaned
                /\ response' =
                     [NoResponse EXCEPT
                        !.type = "verifyCode", !.email = email,
                        !.code = code, !.at = now', !.status = 200,
                        !.verificationStatus = TRUE]
    /\ UNCHANGED live
    /\ UNCHANGED <<engineVars, walletVars>>

\* type 'delete-on-verified'
DeleteOnVerified(email) ==
    /\ codes' = MapDelete(codes, email)
    /\ live' = MapDelete(live, email)
    /\ response' =
         [NoResponse EXCEPT
            !.type = "delete-on-verified", !.status = 200,
            !.deletedStatus = TRUE]
    /\ UNCHANGED now
    /\ UNCHANGED <<engineVars, walletVars>>

\* any other type
UnknownType(email) ==
    /\ response' =
         [NoResponse EXCEPT
            !.type = "unknown", !.status = 400,
            !.message = "Unknown type"]
    /\ UNCHANGED <<codes, now, live>>
    /\ UNCHANGED <<engineVars, walletVars>>

NextEmail ==
    \/ \E d \in {1, TTL} : Tick(d)
    \/ \E email \in Emails, code \in CodeInputs, mail \in MailOutcomes :
          SendEmail(email, code, mail)
    \/ \E email \in Emails, code \in CodeInputs, elapsed \in {0, 1} :
          VerifyCode(email, code, elapsed)
    \/ \E email \in Emails : DeleteOnVerified(email)
    \/ \E email \in Emails : UnknownType(email)

(***************************************************************************)
(* The wallet singleton (getWallet / initWallet)                           *)
(***************************************************************************)
NumCallers == 3
MaxInits == 2
Callers == 1..NumCallers
CallerKinds == {"issueCertificate", "revokeCertificate", "getCertifierPubKey"}
NoWallet == 0
NoPromise == 0
\* A promise is named by its position in `promises`; the wallet instance
\* built by the run of initWallet that returned promise r is named r too.
NoCall == [pc |-> "idle", kind |-> "", promise |-> NoPromise,
           wallet |-> NoWallet]
WalletInit ==
    /\ wallet = NoWallet
    /\ initPromise = NoPromise
    /\ promises = <<>>
    /\ wcall = [c \in Callers |-> NoCall]

InitStarted_Never == FALSE
\* `if (_initPromise)`
InitStarted == initPromise # NoPromise
\* A caller invokes getWallet. initWallet runs synchronously up to its
\* first await: without SERVER_PRIVATE_KEY its promise is rejected at once.
GetWallet(c, kind, keySet) ==
    /\ wcall[c].pc = "idle"
    /\ IF wallet # NoWallet
       THEN /\ wcall' = [wcall EXCEPT ![c] =
                           [pc |-> "returned", kind |-> kind,
                            promise |-> NoPromise, wallet |-> wallet]]
            /\ UNCHANGED <<initPromise, promises>>
       ELSE IF InitStarted
       THEN /\ wcall' = [wcall EXCEPT ![c] =
                           [pc |-> "awaiting", kind |-> kind,
                            promise |-> initPromise, wallet |-> NoWallet]]
            /\ UNCHANGED <<initPromise, promises>>
       ELSE /\ Len(promises) < MaxInits
            /\ promises' = Append(promises,
                                  IF keySet THEN "pending" ELSE "rejected")
            /\ initPromise' = Len(promises) + 1
            /\ wcall' = [wcall EXCEPT ![c] =
                           [pc |-> "awaiting", kind |-> kind,
                            promise |-> Len(promises) + 1,
                            wallet |-> NoWallet]]
    /\ UNCHANGED wallet
    /\ UNCHANGED <<engineVars, emailVars>>

\* initWallet finishes: the storage is available and `_wallet = wallet`,
\* or makeAvailable / addWalletStorageProvider throws.
InitWalletSettles(r, ok) ==
    /\ r \in DOMAIN promises
    /\ promises[r] = "pending"
    /\ IF ok
       THEN /\ promises' = [promises EXCEPT ![r] = "fulfilled"]
            /\ wallet' = r
       ELSE /\ promises' = [promises EXCEPT ![r] = "rejected"]
            /\ UNCHANGED wallet
    /\ UNCHANGED <<initPromise, wcall>>
    /\ UNCHANGED <<engineVars, emailVars>>

\* `await getWallet()` continues in a caller once the promise is settled.
GetWalletResumes(c) ==
    /\ wcall[c].pc = "awaiting"
    /\ promises[wcall[c].promise] # "pending"
    /\ wcall' = [wcall EXCEPT ![c] =
                   IF promises[wcall[c].promise] = "fulfilled"
                   THEN [@ EXCEPT !.pc = "returned",
                                  !.wallet = wcall[c].promise]
                   ELSE [@ EXCEPT !.pc = "threw"]]
    /\ UNCHANGED <<wallet, initPromise, promises>>
    /\ UNCHANGED <<engineVars, emailVars>>

\* The caller's request ends; the handler can serve another one.
CallerEnds(c) ==
    /\ wcall[c].pc \in {"returned", "threw"}
    /\ wcall' = [wcall EXCEPT ![c] = NoCall]
    /\ UNCHANGED <<wallet, initPromise, promises>>
    /\ UNCHANGED <<engineVars, emailVars>>

NextWallet ==
    \/ \E c \in Callers, kind \in CallerKinds, keySet \in BOOLEAN :
          GetWallet(c, kind, keySet)
    \/ \E r \in 1..MaxInits, ok \in BOOLEAN : InitWalletSettles(r, ok)
    \/ \E c \in Callers : GetWalletResumes(c)
    \/ \E c \in Callers : CallerEnds(c)

(***************************************************************************)
(* Secret store persistence                                                *)
(***************************************************************************)
MissingFile == [kind |-> "missing", records |-> EmptyRecords]
EmptyFile == [kind |-> "json", records |-> EmptyRecords]
CorruptFile == [kind |-> "corrupt", records |-> EmptyRecords]
\* The file holds the JSON text `null`: it parses, but not to a mapping.
NullFile == [kind |-> "null", records |-> EmptyRecords]

\* JSON.parse gave null: the value loadSecrets returns has no properties and
\* every property access on it throws a TypeError.
LoadedNull(f) == f.kind = "null"

\* A loader that salvages an entry from content it cannot parse instead of
\* giving the empty mapping.
loadSecrets_Salvage(f) ==
    IF f.kind = "corrupt"
    THEN (UnknownSerial :> RevocationRecord(<<>>, NoOutpoint, <<>>))
    ELSE f.records

\* loadSecrets: the parsed mapping, {} when the file is missing or unreadable.
loadSecrets(f) ==
    IF f.kind = "json" THEN f.records ELSE EmptyRecords

\* Mutant: the write is skipped.
saveSecrets_Skipped(records) == file

\* saveSecrets: the file now holds the JSON text of the mapping.
saveSecrets(records) == [kind |-> "json", records |-> records]

\* records[serialNumber]
Lookup(records, serial) ==
    IF serial \in DOMAIN records THEN records[serial] ELSE Undefined

\* Mutant: the closure changes a copy, the mapping it was given stays as is.
IssueMutation_Dropped(records, serial, record) == records
\* Mutant: the closure replaces the mapping by one holding the new record only.
IssueMutation_Overwrite(records, serial, record) == [s \in {serial} |-> record]

\* records[serialNumber] = record
IssueMutation(records, serial, record) ==
    [s \in (DOMAIN records) \cup {serial} |->
        IF s = serial THEN record ELSE records[s]]

\* A delete that saves a fresh mapping instead of the loaded one without the
\* serial.
RevokeMutation_Clear(records, serial) == EmptyRecords

\* Mutant: the delete has no effect.
RevokeMutation_Kept(records, serial) == records

\* delete recs[serialNumber]
RevokeMutation(records, serial) ==
    [s \in (DOMAIN records) \ {serial} |-> records[s]]

(***************************************************************************)
(* Locals and results                                                      *)
(***************************************************************************)
NoLocals ==
    [op |-> "none", serial |-> NoSerial, record |-> Undefined,
     certOutpoint |-> NoOutpoint, prev |-> -1, mine |-> -1, txid |-> NoTxid]

\* An answer to a caller: the call, who made it, and its result or error.
NoOutput == [call |-> "none", proc |-> 0, status |-> "none", error |-> "",
             serial |-> NoSerial, outpoint |-> NoOutpoint, txid |-> NoTxid,
             revoked |-> FALSE, valid |-> FALSE, certificate |-> <<>>]
Failure(call, p, serial, msg) ==
    [NoOutput EXCEPT !.call = call, !.proc = p, !.status = "error",
                     !.serial = serial, !.error = msg]

ErrNotFunded == "Certifier wallet not funded. Use /api/fund to add funds before issuing certificates."
ErrNoTxid == "createAction did not return a txid - wallet may not be funded"
ErrFunds == "ERR_NOT_SUFFICIENT_FUNDS"
ErrLedger == "ledger error"
ErrSigner == "signer error"
ErrNotFound == "Certificate already revoked or not found"
ErrRevokeNoTxid == "Revocation transaction failed - no txid returned"
ErrTypeError == "TypeError: Cannot read properties of null"
ErrWrite == "writeFileSync error"

\* msg.includes('not enough funds') || msg.includes('not funded') ||
\* msg.includes('ERR_NOT_SUFFICIENT_FUNDS')
\* Of the messages above only ErrFunds holds one of the three texts
\* ("... wallet may not be funded" does not hold 'not funded').
IsFundsMessage(msg) == msg \in {ErrFunds}

(***************************************************************************)
(* Event loop                                                              *)
(***************************************************************************)
\* Mutant: the call does not wait for prev.
PrevSettled_Ignored(p) == TRUE

\* `await prev` in withSecretsLock: the call goes on once prev is resolved.
PrevSettled(p) == loc[p].prev \in resolved

\* A continuation is ready to run: ledger I/O completes only when none is.
MicrotaskPending ==
    \E p \in Procs :
        \/ pc[p] = "awaitPrev" /\ PrevSettled(p)
        \/ pc[p] = "afterLock"

\* Request handlers are interchangeable: a new call runs in the first free one.
FirstFree(p) == pc[p] = "idle" /\ \A q \in Procs : q < p => pc[q] # "idle"

Init ==
    /\ file \in {MissingFile, CorruptFile, EmptyFile}
    /\ ledger = [t \in {} |-> [lock |-> LockingScript(<<>>), spent |-> FALSE]]
    /\ nextTx = 1
    /\ nextSerial = 1
    /\ writeMutex = 0
    /\ resolved = {0}
    /\ pc = [p \in Procs |-> "idle"]
    /\ loc = [p \in Procs |-> NoLocals]
    /\ certs = [s \in {} |-> NoOutpoint]
    /\ revokedOk = {}
    /\ out = NoOutput
    /\ EmailInit
    /\ WalletInit

(***************************************************************************)
(* Ledger capability (wallet.createAction)                                 *)
(***************************************************************************)
\* A ledger that accepts a second spend of an output.
CanSpend_Twice(l, outpoint, unlockingScript) ==
    /\ outpoint.vout = 0
    /\ outpoint.txid \in DOMAIN l
    /\ l[outpoint.txid].lock = LockingScript(sha256(unlockingScript.push))

\* The ledger accepts a spend of an existing, unspent output whose locking
\* script the unlocking script satisfies.
CanSpend(l, outpoint, unlockingScript) ==
    /\ outpoint.vout = 0
    /\ outpoint.txid \in DOMAIN l
    /\ ~l[outpoint.txid].spent
    /\ l[outpoint.txid].lock = LockingScript(sha256(unlockingScript.push))

CreateOutcomes == {"ok", "noTxid", "throwFunds", "throwOther"}
SpendOutcomes == {"ok", "noTxid", "throw"}

\* result.tx: the bytes of the transaction the ledger built.
TxBytes(txid) == <<txid>>
\* `result.tx ? Array.from(result.tx) : []`
BeefOf(tx) == IF tx # <<>> THEN tx ELSE <<>>

\* The message of the error createRevocationUtxo ends with.
CreateError(outcome) ==
    CASE outcome = "noTxid" -> ErrNoTxid
      [] outcome = "throwFunds" -> ErrFunds
      [] OTHER -> ErrLedger

\* The catch block of issueCertificate: funds errors get their own message.
IssueCatch(msg) == IF IsFundsMessage(msg) THEN ErrNotFunded ELSE msg

\* The answers of the ledger that come from a wallet without funds: the
\* funds error it throws, and the answer without txid ("wallet may not be
\* funded").
FundsRejection(outcome) == outcome \in {"noTxid", "throwFunds"}

\* message.includes('not funded'), over the messages above.
IncludesNotFunded(message) == message \in {ErrNotFunded}

\* The HTTP status the certify route answers a failed issueCertificate with.
CertifyStatus(message) == IF IncludesNotFunded(message) THEN 503 ELSE 500

\* The error text of the certify route's answer:
\* 'Failed to issue certificate: ' + message.
CertifyErrorText(message) == <<"Failed to issue certificate: ", message>>

\* The error text of the revoke route's answer: the message as it is.
RevokeErrorText(message) == <<message>>

\* The error text the caller of the route gets for a failed call.
ErrorText(call, message) ==
    IF call = "issue" THEN CertifyErrorText(message)
    ELSE RevokeErrorText(message)

(***************************************************************************)
(* withSecretsLock                                                         *)
(***************************************************************************)
\* withSecretsLock reading prev after it has replaced _writeMutex: the call
\* awaits its own promise.
EnterLock_OwnPromise(l) ==
    [l EXCEPT !.prev = writeMutex + 1, !.mine = writeMutex + 1]

\* The synchronous head of withSecretsLock: take the tail of the chain as
\* prev, append a new promise, then await prev.
EnterLock(l) ==
    [l EXCEPT !.prev = writeMutex, !.mine = writeMutex + 1]

\* The closure the call passed to withSecretsLock.
Closure(l, records) ==
    IF l.op = "issue" THEN IssueMutation(records, l.serial, l.record)
    ELSE RevokeMutation(records, l.serial)

\* `records[serial] = ...` and `delete recs[serial]` throw on null.
ClosureThrows(f) == LoadedNull(f)

\* withSecretsLock with resolve() after saveSecrets instead of in `finally`:
\* a closure that throws leaves the promise unresolved.
LockCycle_NoFinally(p) ==
    /\ pc[p] = "awaitPrev"
    /\ PrevSettled(p)
    /\ IF ClosureThrows(file)
       THEN /\ file' = file
            /\ resolved' = resolved
            /\ pc' = [pc EXCEPT ![p] = "idle"]
            /\ loc' = [loc EXCEPT ![p] = NoLocals]
            /\ out' = Failure(loc[p].op, p, loc[p].serial, ErrTypeError)
       ELSE /\ file' = saveSecrets(Closure(loc[p], loadSecrets(file)))
            /\ resolved' = resolved \cup {loc[p].mine}
            /\ pc' = [pc EXCEPT ![p] = "afterLock"]
            /\ out' = NoOutput
            /\ UNCHANGED loc
    /\ UNCHANGED <<emailVars, walletVars>>
    /\ UNCHANGED <<ledger, nextTx, nextSerial, writeMutex, certs, revokedOk>>

\* After `await prev`: load, mutate, save, resolve - one synchronous run.
\* When the closure throws nothing is saved, `finally` resolves the promise
\* and the error ends the call that entered the lock.
LockCycle(p) ==
    /\ pc[p] = "awaitPrev"
    /\ PrevSettled(p)
    /\ resolved' = resolved \cup {loc[p].mine}
    /\ IF ClosureThrows(file)
       THEN /\ file' = file
            /\ pc' = [pc EXCEPT ![p] = "idle"]
            /\ loc' = [loc EXCEPT ![p] = NoLocals]
            /\ out' = Failure(loc[p].op, p, loc[p].serial, ErrTypeError)
       ELSE /\ file' = saveSecrets(Closure(loc[p], loadSecrets(file)))
            /\ pc' = [pc EXCEPT ![p] = "afterLock"]
            /\ out' = NoOutput
            /\ UNCHANGED loc
    /\ UNCHANGED <<emailVars, walletVars>>
    /\ UNCHANGED <<ledger, nextTx, nextSerial, writeMutex, certs, revokedOk>>

(***************************************************************************)
(* issueCertificate                                                        *)
(***************************************************************************)
\* issueCertificate wrapped in withSecretsLock as a whole: the token is
\* taken before the commitment is submitted to the ledger.
IssueStart_LockFirst(p) ==
    /\ FirstFree(p)
    /\ pc' = [pc EXCEPT ![p] = "createUtxo"]
    /\ loc' = [loc EXCEPT ![p] = EnterLock([NoLocals EXCEPT !.op = "issue"])]
    /\ writeMutex' = writeMutex + 1
    /\ out' = NoOutput
    /\ UNCHANGED <<emailVars, walletVars>>
    /\ UNCHANGED <<file, ledger, nextTx, nextSerial, resolved, certs,
                   revokedOk>>

\* The call starts and submits the commitment output to the ledger.
IssueStart(p) ==
    /\ FirstFree(p)
    /\ pc' = [pc EXCEPT ![p] = "createUtxo"]
    /\ loc' = [loc EXCEPT ![p] = [NoLocals EXCEPT !.op = "issue"]]
    /\ out' = NoOutput
    /\ UNCHANGED <<emailVars, walletVars>>
    /\ UNCHANGED <<file, ledger, nextTx, nextSerial, writeMutex, resolved,
                   certs, revokedOk>>

\* createRevocationUtxo without the `if (!result.txid) throw`: an answer
\* that made no output is taken for a commitment and handed to the Signer.
CreateActionReturn_NoTxidCheck(p, outcome) ==
    /\ pc[p] = "createUtxo"
    /\ ~MicrotaskPending
    /\ loc' = [loc EXCEPT ![p].record =
                 RevocationRecord(toHex(Random(nextTx)), NoOutpoint, <<>>)]
    /\ pc' = [pc EXCEPT ![p] = "signing"]
    /\ out' = NoOutput
    /\ UNCHANGED <<emailVars, walletVars>>
    /\ UNCHANGED <<file, ledger, nextTx, nextSerial, writeMutex, resolved,
                   certs, revokedOk>>

\* createRevocationUtxo after wallet.createAction has answered; on success
\* issueCertificate goes on to call the Signer.
CreateActionReturn(p, outcome) ==
    /\ pc[p] = "createUtxo"
    /\ ~MicrotaskPending
    /\ IF outcome = "ok"
       THEN /\ nextTx <= MaxTx
            /\ LET secretBytes == Random(nextTx)
                   beef == BeefOf(TxBytes(nextTx))
               IN /\ ledger' = [t \in (DOMAIN ledger) \cup {nextTx} |->
                                  IF t = nextTx
                                  THEN [lock |-> LockingScript(sha256(secretBytes)),
                                        spent |-> FALSE]
                                  ELSE ledger[t]]
                  /\ loc' = [loc EXCEPT ![p].record =
                               RevocationRecord(toHex(secretBytes),
                                                Outpoint(nextTx, 0), beef)]
            /\ nextTx' = nextTx + 1
            /\ pc' = [pc EXCEPT ![p] = "signing"]
            /\ out' = NoOutput
       ELSE /\ out' = Failure("issue", p, NoSerial,
                              IssueCatch(CreateError(outcome)))
            /\ pc' = [pc EXCEPT ![p] = "idle"]
            /\ loc' = [loc EXCEPT ![p] = NoLocals]
            /\ UNCHANGED <<ledger, nextTx>>
    /\ UNCHANGED <<emailVars, walletVars>>
    /\ UNCHANGED <<file, nextSerial, writeMutex, resolved, certs, revokedOk>>

\* A callback that hands the Signer the dummy outpoint.
getRevocationOutpoint_Dummy(l) == DUMMY_OUTPOINT

\* `async () => pendingOutpoint`: the outpoint the Signer embeds in the
\* certificate as revocationOutpoint.
getRevocationOutpoint(l) == l.record.outpoint

\* issueCertificate persisting the pending record before the Signer has
\* answered: a failed signing leaves a record in the store.
SignerReturn_PersistOnFailure(p, ok) ==
    /\ pc[p] = "signing"
    /\ file' = saveSecrets(IssueMutation(loadSecrets(file), UnknownSerial,
                                         loc[p].record))
    /\ out' = Failure("issue", p, NoSerial, ErrSigner)
    /\ pc' = [pc EXCEPT ![p] = "idle"]
    /\ loc' = [loc EXCEPT ![p] = NoLocals]
    /\ UNCHANGED <<emailVars, walletVars>>
    /\ UNCHANGED <<ledger, nextTx, nextSerial, writeMutex, resolved, certs,
                   revokedOk>>

\* MasterCertificate.issueCertificateForSubject has answered; the callback
\* gave it pendingOutpoint.  On success the call enters withSecretsLock.
SignerReturn(p, ok) ==
    /\ pc[p] = "signing"
    /\ IF ok
       THEN /\ nextSerial <= MaxSerial
            /\ loc' = [loc EXCEPT ![p] =
                         EnterLock([loc[p] EXCEPT
                                      !.serial = nextSerial,
                                      !.certOutpoint =
                                         getRevocationOutpoint(loc[p])])]
            /\ certs' = [s \in (DOMAIN certs) \cup {nextSerial} |->
                           IF s = nextSerial THEN getRevocationOutpoint(loc[p])
                           ELSE certs[s]]
            /\ nextSerial' = nextSerial + 1
            /\ writeMutex' = writeMutex + 1
            /\ pc' = [pc EXCEPT ![p] = "awaitPrev"]
            /\ out' = NoOutput
       ELSE /\ out' = Failure("issue", p, NoSerial, ErrSigner)
            /\ pc' = [pc EXCEPT ![p] = "idle"]
            /\ loc' = [loc EXCEPT ![p] = NoLocals]
            /\ UNCHANGED <<certs, nextSerial, writeMutex>>
    /\ UNCHANGED <<emailVars, walletVars>>
    /\ UNCHANGED <<file, ledger, nextTx, resolved, revokedOk>>

\* withSecretsLock has returned: issueCertificate returns the certificate.
IssueReturn(p) ==
    /\ pc[p] = "afterLock"
    /\ loc[p].op = "issue"
    /\ out' = [NoOutput EXCEPT !.call = "issue", !.proc = p,
                                !.status = "ok",
                                !.serial = loc[p].serial,
                                !.outpoint = loc[p].certOutpoint,
                                !.txid = loc[p].record.outpoint.txid]
    /\ pc' = [pc EXCEPT ![p] = "idle"]
    /\ loc' = [loc EXCEPT ![p] = NoLocals]
    /\ UNCHANGED <<emailVars, walletVars>>
    /\ UNCHANGED <<file, ledger, nextTx, nextSerial, writeMutex, resolved,
                   certs, revokedOk>>

(***************************************************************************)
(* revokeCertificate                                                       *)
(***************************************************************************)
\* Mutant: the missing record is not noticed.
RecordMissing_Never(record) == FALSE

\* `if (!record)`
RecordMissing(record) == record = Undefined

\* Mutant: the record is deleted before the spend is submitted.
RevokeStart_DeleteFirst(p, serialNumber) ==
    /\ FirstFree(p)
    /\ LET record == Lookup(loadSecrets(file), serialNumber)
       IN IF RecordMissing(record)
          THEN /\ out' = Failure("revoke", p, serialNumber, ErrNotFound)
               /\ UNCHANGED <<pc, loc, file>>
          ELSE /\ out' = NoOutput
               /\ pc' = [pc EXCEPT ![p] = "spend"]
               /\ loc' = [loc EXCEPT ![p] =
                            [NoLocals EXCEPT !.op = "revoke",
                                             !.serial = serialNumber,
                                             !.record = record]]
               /\ file' = saveSecrets(RevokeMutation(loadSecrets(file),
                                                     serialNumber))
    /\ UNCHANGED <<emailVars, walletVars>>
    /\ UNCHANGED <<ledger, nextTx, nextSerial, writeMutex, resolved,
                   certs, revokedOk>>

\* The call starts: look the record up and submit the spend to the ledger,
\* or fail at once when there is no record.
RevokeStart(p, serialNumber) ==
    /\ FirstFree(p)
    /\ LET record == Lookup(loadSecrets(file), serialNumber)
       IN IF LoadedNull(file)
          THEN /\ out' = Failure("revoke", p, serialNumber, ErrTypeError)
               /\ UNCHANGED <<pc, loc>>
          ELSE IF RecordMissing(record)
          THEN /\ out' = Failure("revoke", p, serialNumber, ErrNotFound)
               /\ UNCHANGED <<pc, loc>>
          ELSE /\ out' = NoOutput
               /\ pc' = [pc EXCEPT ![p] = "spend"]
               /\ loc' = [loc EXCEPT ![p] =
                            [NoLocals EXCEPT !.op = "revoke",
                                             !.serial = serialNumber,
                                             !.record = record]]
    /\ UNCHANGED <<emailVars, walletVars>>
    /\ UNCHANGED <<file, ledger, nextTx, nextSerial, writeMutex, resolved,
                   certs, revokedOk>>

\* Mutant: the answer of the ledger is not looked at.
SpendSucceeded_Always(outcome) == TRUE

\* `if (!result.txid) throw`: does the answer of the ledger count as a spend?
SpendSucceeded(outcome) == outcome = "ok"

\* revokeCertificate that writes the record it loaded back to the store
\* when the spend fails.
SpendReturn_RestoreOnFailure(p, outcome) ==
    /\ pc[p] = "spend"
    /\ ~MicrotaskPending
    /\ LET secretBytes == toArray(loc[p].record.secret)
           unlockingScript == UnlockingScript(secretBytes)
       IN outcome = "ok" =>
            /\ CanSpend(ledger, loc[p].record.outpoint, unlockingScript)
            /\ nextTx <= MaxTx
    /\ IF outcome = "ok"
       THEN /\ ledger' = [ledger EXCEPT ![loc[p].record.outpoint.txid].spent = TRUE]
            /\ nextTx' = nextTx + 1
       ELSE UNCHANGED <<ledger, nextTx>>
    /\ IF SpendSucceeded(outcome)
       THEN /\ loc' = [loc EXCEPT ![p] =
                         EnterLock([loc[p] EXCEPT !.txid =
                                      IF outcome = "ok" THEN nextTx ELSE NoTxid])]
            /\ writeMutex' = writeMutex + 1
            /\ pc' = [pc EXCEPT ![p] = "awaitPrev"]
            /\ out' = NoOutput
            /\ UNCHANGED file
       ELSE /\ out' = Failure("revoke", p, loc[p].serial,
                              IF outcome = "noTxid" THEN ErrRevokeNoTxid
                              ELSE ErrLedger)
            /\ pc' = [pc EXCEPT ![p] = "idle"]
            /\ loc' = [loc EXCEPT ![p] = NoLocals]
            /\ file' = saveSecrets(IssueMutation(loadSecrets(file),
                                                 loc[p].serial, loc[p].record))
            /\ UNCHANGED writeMutex
    /\ UNCHANGED <<emailVars, walletVars>>
    /\ UNCHANGED <<nextSerial, resolved, certs, revokedOk>>

\* wallet.createAction has answered the spend; on success the call enters
\* withSecretsLock to delete the record.
SpendReturn(p, outcome) ==
    /\ pc[p] = "spend"
    /\ ~MicrotaskPending
    /\ LET secretBytes == toArray(loc[p].record.secret)
           unlockingScript == UnlockingScript(secretBytes)
       IN outcome = "ok" =>
            /\ CanSpend(ledger, loc[p].record.outpoint, unlockingScript)
            /\ nextTx <= MaxTx
    /\ IF outcome = "ok"
       THEN /\ ledger' = [ledger EXCEPT ![loc[p].record.outpoint.txid].spent = TRUE]
            /\ nextTx' = nextTx + 1
       ELSE UNCHANGED <<ledger, nextTx>>
    /\ IF SpendSucceeded(outcome)
       THEN /\ loc' = [loc EXCEPT ![p] =
                         EnterLock([loc[p] EXCEPT !.txid =
                                      IF outcome = "ok" THEN nextTx ELSE NoTxid])]
            /\ writeMutex' = writeMutex + 1
            /\ pc' = [pc EXCEPT ![p] = "awaitPrev"]
            /\ out' = NoOutput
       ELSE /\ out' = Failure("revoke", p, loc[p].serial,
                              IF outcome = "noTxid" THEN ErrRevokeNoTxid
                              ELSE ErrLedger)
            /\ pc' = [pc EXCEPT ![p] = "idle"]
            /\ loc' = [loc EXCEPT ![p] = NoLocals]
            /\ UNCHANGED writeMutex
    /\ UNCHANGED <<emailVars, walletVars>>
    /\ UNCHANGED <<file, nextSerial, resolved, certs, revokedOk>>

\* withSecretsLock has returned: revokeCertificate returns the txid.
RevokeReturn(p) ==
    /\ pc[p] = "afterLock"
    /\ loc[p].op = "revoke"
    /\ out' = [NoOutput EXCEPT !.call = "revoke", !.proc = p,
                                !.status = "ok",
                                !.serial = loc[p].serial,
                                !.outpoint = loc[p].record.outpoint,
                                !.txid = loc[p].txid]
    /\ revokedOk' = revokedOk \cup {loc[p].serial}
    /\ pc' = [pc EXCEPT ![p] = "idle"]
    /\ loc' = [loc EXCEPT ![p] = NoLocals]
    /\ UNCHANGED <<emailVars, walletVars>>
    /\ UNCHANGED <<file, ledger, nextTx, nextSerial, writeMutex, resolved,
                   certs>>

(***************************************************************************)
(* checkRevocationStatus                                                   *)
(***************************************************************************)
\* Mutant: the dummy outpoint gets no special treatment.
checkRevocationStatus_NoDummy(revocationOutpoint, f) ==
    LET records == loadSecrets(f)
        found == \E s \in DOMAIN records :
                     records[s].outpoint = revocationOutpoint
    IN ~found
\* Mutant: the answer is `found` instead of `!found`.
checkRevocationStatus_Inverted(revocationOutpoint, f) ==
    IF revocationOutpoint = DUMMY_OUTPOINT
    THEN FALSE
    ELSE LET records == loadSecrets(f)
         IN \E s \in DOMAIN records :
                records[s].outpoint = revocationOutpoint

\* true = revoked (no record names the outpoint), false = not revoked.
checkRevocationStatus(revocationOutpoint, f) ==
    IF revocationOutpoint = DUMMY_OUTPOINT
    THEN FALSE
    ELSE LET records == loadSecrets(f)
             found == \E s \in DOMAIN records :
                          records[s].outpoint = revocationOutpoint
         IN ~found

\* Outpoints a caller asks about: the dummy one, issued and never issued ones.
CheckInputs ==
    {Outpoint(t, 0) : t \in {ZeroTxid} \cup Txids} \cup {Outpoint(ZeroTxid, 1)}

\* Object.values(records) throws on null; the dummy outpoint is answered
\* before the store is loaded.
CheckThrows(revocationOutpoint, f) ==
    revocationOutpoint # DUMMY_OUTPOINT /\ LoadedNull(f)

\* A status check that writes the mapping it loaded back to the file,
\* without taking the token.
Check_WritesBack(revocationOutpoint) ==
    /\ out' = [NoOutput EXCEPT
                  !.call = "check", !.status = "ok",
                  !.outpoint = revocationOutpoint,
                  !.revoked = checkRevocationStatus(revocationOutpoint, file)]
    /\ file' = saveSecrets(loadSecrets(file))
    /\ UNCHANGED <<emailVars, walletVars>>
    /\ UNCHANGED <<ledger, nextTx, nextSerial, writeMutex, resolved, pc, loc,
                   certs, revokedOk>>

\* A synchronous status check.
Check(revocationOutpoint) ==
    /\ out' = IF CheckThrows(revocationOutpoint, file)
              THEN [Failure("check", 0, NoSerial, ErrTypeError) EXCEPT
                      !.outpoint = revocationOutpoint]
              ELSE [NoOutput EXCEPT
                      !.call = "check", !.status = "ok",
                      !.outpoint = revocationOutpoint,
                      !.revoked = checkRevocationStatus(revocationOutpoint, file)]
    /\ UNCHANGED <<emailVars, walletVars>>
    /\ UNCHANGED <<file, ledger, nextTx, nextSerial, writeMutex, resolved, pc,
                   loc, certs, revokedOk>>

(***************************************************************************)
(* Specification                                                           *)
(***************************************************************************)
Next ==
    \/ \E p \in Procs : IssueStart(p)
    \/ \E p \in Procs, outcome \in CreateOutcomes : CreateActionReturn(p, outcome)
    \/ \E p \in Procs, ok \in BOOLEAN : SignerReturn(p, ok)
    \/ \E p \in Procs : LockCycle(p)
    \/ \E p \in Procs : IssueReturn(p)
    \/ \E p \in Procs, s \in {UnknownSerial} \cup Serials : RevokeStart(p, s)
    \/ \E p \in Procs, outcome \in SpendOutcomes : SpendReturn(p, outcome)
    \/ \E p \in Procs : RevokeReturn(p)
    \/ \E o \in CheckInputs : Check(o)

Spec == Init /\ [][Next]_vars

(***************************************************************************)
(* The verify route                                                        *)
(***************************************************************************)
\* The identity key of this server's wallet, and the key of another
\* certifier.
ourPubKey == "certifier"
otherPubKey == "other certifier"

\* The signature a certifier makes over the fields of a certificate.
Signature(certifier, serialNumber, revocationOutpoint) ==
    <<"signature", certifier, serialNumber, revocationOutpoint>>

\* The certificate a client posts to the route.
Certificate(serialNumber, certifier, revocationOutpoint, signature) ==
    [serialNumber |-> serialNumber, certifier |-> certifier,
     revocationOutpoint |-> revocationOutpoint, signature |-> signature]

\* cert.verify(): the signature is the certifier's over these fields.
verify(cert) ==
    cert.signature =
       Signature(cert.certifier, cert.serialNumber, cert.revocationOutpoint)

\* The certificates clients post: one this server issued, the same with its
\* revocationOutpoint replaced by the dummy outpoint, and one another
\* certifier issued for the same commitment.
VerifyInputs ==
    UNION {{Certificate(s, ourPubKey, certs[s],
                        Signature(ourPubKey, s, certs[s])),
            Certificate(s, ourPubKey, DUMMY_OUTPOINT,
                        Signature(ourPubKey, s, certs[s])),
            Certificate(s, otherPubKey, certs[s],
                        Signature(otherPubKey, s, certs[s]))} :
           s \in DOMAIN certs}

\* A route that leaves the status check out of `valid`.
VerifyValid_IgnoresRevocation(isValid, isRevoked) == isValid

\* `valid: isValid && !isRevoked`
VerifyValid(isValid, isRevoked) == isValid /\ ~isRevoked

\* POST /api/verify with a complete certificate: the certifier is compared,
\* the signature verified and the status checked; the answer is built in
\* the same synchronous run as the status check.
Verify(certificate) ==
    /\ out' = IF certificate.certifier # ourPubKey
              THEN [NoOutput EXCEPT
                      !.call = "verify", !.status = "ok",
                      !.certificate = <<certificate>>,
                      !.serial = certificate.serialNumber,
                      !.outpoint = certificate.revocationOutpoint,
                      !.error = "Certificate was not issued by this certifier"]
              ELSE IF CheckThrows(certificate.revocationOutpoint, file)
              THEN [Failure("verify", 0, certificate.serialNumber,
                            ErrTypeError) EXCEPT
                      !.certificate = <<certificate>>,
                      !.outpoint = certificate.revocationOutpoint]
              ELSE LET isValid == verify(certificate)
                       isRevoked == checkRevocationStatus(
                                       certificate.revocationOutpoint, file)
                   IN [NoOutput EXCEPT
                         !.call = "verify", !.status = "ok",
                         !.certificate = <<certificate>>,
                         !.serial = certificate.serialNumber,
                         !.outpoint = certificate.revocationOutpoint,
                         !.revoked = isRevoked,
                         !.valid = VerifyValid(isValid, isRevoked)]
    /\ UNCHANGED <<emailVars, walletVars>>
    /\ UNCHANGED <<file, ledger, nextTx, nextSerial, writeMutex, resolved, pc,
                   loc, certs, revokedOk>>

\* Issuances and revocations, with clients that ask the verify route for
\* the status of certificates.
NextVerify ==
    \/ \E p \in Procs : IssueStart(p)
    \/ \E p \in Procs, outcome \in CreateOutcomes : CreateActionReturn(p, outcome)
    \/ \E p \in Procs, ok \in BOOLEAN : SignerReturn(p, ok)
    \/ \E p \in Procs : LockCycle(p)
    \/ \E p \in Procs : IssueReturn(p)
    \/ \E p \in Procs, s \in {UnknownSerial} \cup Serials : RevokeStart(p, s)
    \/ \E p \in Procs, outcome \in SpendOutcomes : SpendReturn(p, outcome)
    \/ \E p \in Procs : RevokeReturn(p)
    \/ \E certificate \in VerifyInputs : Verify(certificate)

SpecVerify == Init /\ [][NextVerify]_vars

(***************************************************************************)
(* The store with content the engine did not write, and failing writes     *)
(***************************************************************************)
\* The file may also hold JSON that is no mapping when the process starts.
InitAnyStore ==
    /\ file \in {MissingFile, CorruptFile, EmptyFile, NullFile}
    /\ ledger = [t \in {} |-> [lock |-> LockingScript(<<>>), spent |-> FALSE]]
    /\ nextTx = 1
    /\ nextSerial = 1
    /\ writeMutex = 0
    /\ resolved = {0}
    /\ pc = [p \in Procs |-> "idle"]
    /\ loc = [p \in Procs |-> NoLocals]
    /\ certs = [s \in {} |-> NoOutpoint]
    /\ revokedOk = {}
    /\ out = NoOutput
    /\ EmailInit
    /\ WalletInit

\* What writeFileSync can leave behind when it throws: the file as it was
\* (it could not be opened) or a truncated file (opened with flag 'w', then
\* the write failed), which no longer parses.
FailedWriteResults(f) == {f, CorruptFile}

\* A cycle whose saveSecrets throws: `finally` resolves the promise and the
\* error ends the call that entered the lock.
SaveFails(p) ==
    /\ pc[p] = "awaitPrev"
    /\ PrevSettled(p)
    /\ ~ClosureThrows(file)
    /\ file' \in FailedWriteResults(file)
    /\ resolved' = resolved \cup {loc[p].mine}
    /\ pc' = [pc EXCEPT ![p] = "idle"]
    /\ loc' = [loc EXCEPT ![p] = NoLocals]
    /\ out' = Failure(loc[p].op, p, loc[p].serial, ErrWrite)
    /\ UNCHANGED <<emailVars, walletVars>>
    /\ UNCHANGED <<ledger, nextTx, nextSerial, writeMutex, certs, revokedOk>>

NextStoreFaults ==
    \/ Next
    \/ \E p \in Procs : SaveFails(p)

SpecStoreFaults == InitAnyStore /\ [][NextStoreFaults]_vars

\* The callers of withSecretsLock alone, with the same faults: issuances
\* and revocations without status checks.
NextLockFaults ==
    \/ \E p \in Procs : IssueStart(p)
    \/ \E p \in Procs, outcome \in CreateOutcomes : CreateActionReturn(p, outcome)
    \/ \E p \in Procs, ok \in BOOLEAN : SignerReturn(p, ok)
    \/ \E p \in Procs : LockCycle(p)
    \/ \E p \in Procs : IssueReturn(p)
    \/ \E p \in Procs, s \in {UnknownSerial} \cup Serials : RevokeStart(p, s)
    \/ \E p \in Procs, outcome \in SpendOutcomes : SpendReturn(p, outcome)
    \/ \E p \in Procs : RevokeReturn(p)
    \/ \E p \in Procs : SaveFails(p)

SpecLockFaults == InitAnyStore /\ [][NextLockFaults]_vars

\* The continuation of `await prev` is a microtask: once prev is resolved the
\* event loop runs it, and the cycle it starts is synchronous and ends.
LockFairness == \A p \in Procs : WF_vars(LockCycle(p))

\* Calls that reach withSecretsLock: the ledger and the Signer answer with
\* success, the cycles may fail.
NextLockQueue ==
    \/ \E p \in Procs : IssueStart(p)
    \/ \E p \in Procs : CreateActionReturn(p, "ok")
    \/ \E p \in Procs : SignerReturn(p, TRUE)
    \/ \E p \in Procs : LockCycle(p)
    \/ \E p \in Procs : IssueReturn(p)
    \/ \E p \in Procs, s \in Serials : RevokeStart(p, s)
    \/ \E p \in Procs : SpendReturn(p, "ok")
    \/ \E p \in Procs : RevokeReturn(p)
    \/ \E p \in Procs : SaveFails(p)

SpecLockFair == InitAnyStore /\ [][NextLockQueue]_vars /\ LockFairness

(***************************************************************************)
(* Notions the properties below are stated with                            *)
(***************************************************************************)
\* The persisted mapping (empty for a missing or unreadable file).
Persisted == file.records
HasRecord(serial) == serial \in DOMAIN Persisted
\* The commitment is an output of the ledger nobody has spent.
Unspent(outpoint) ==
    /\ outpoint.vout = 0
    /\ outpoint.txid \in DOMAIN ledger
    /\ ~ledger[outpoint.txid].spent
\* Serial numbers a caller may pass to revokeCertificate.
RevokeInputs == {UnknownSerial} \cup Serials
\* A call for this serial waits for the store lock: an issuance has signed
\* but not yet persisted, or a revocation has spent but not yet deleted.
InLockQueue(serial) ==
    \E p \in Procs : pc[p] = "awaitPrev" /\ loc[p].serial = serial
\* In this step handler p begins revokeCertificate(serial).
StartsRevoke(p, serial) ==
    /\ pc[p] = "idle"
    /\ \/ pc'[p] = "spend" /\ loc'[p].serial = serial
       \/ out'.call = "revoke" /\ out'.proc = p /\ out'.serial = serial
\* In this step the spend of handler p's revokeCertificate fails.
FailsAtSpend(p) ==
    /\ pc[p] = "spend"
    /\ out'.call = "revoke" /\ out'.proc = p /\ out'.status = "error"
\* In this step handler p runs its load-mutate-save cycle.
RunsCycle(p) == pc[p] = "awaitPrev" /\ pc'[p] = "afterLock"

C4_RevokedStaysRevoked ==
    \A s \in revokedOk :
        /\ checkRevocationStatus(certs[s], file) = TRUE
        /\ ~HasRecord(s)
C4_SecondRevokeNotFound ==
    \A p \in Procs, s \in RevokeInputs :
        (s \in revokedOk /\ StartsRevoke(p, s)) =>
            /\ out' = Failure("revoke", p, s, ErrNotFound)
            /\ pc'[p] = "idle"

\* C4: once revokeCertificate(S) has returned a txid, the status check of the
\* commitment of S answers true and a later revokeCertificate(S) fails with
\* the not-found error.
C4_RevokeOnce ==
    [](C4_RevokedStaysRevoked) /\ [][C4_SecondRevokeNotFound]_vars

\* C4 witness: a second revokeCertificate(S) was answered not-found.
C4_Witness ==
    /\ out.call = "revoke" /\ out.error = ErrNotFound
    /\ out.serial \in revokedOk

C8_CyclesInCallOrder ==
    [][\A p \in Procs :
          RunsCycle(p) =>
              /\ \A t \in 0..(loc[p].mine - 1) : t \in resolved
              /\ loc[p].mine \notin resolved
              /\ resolved' = resolved \cup {loc[p].mine}
              /\ \A q \in Procs \ {p} : ~RunsCycle(q)]_vars

\* C8 witness: a call waited in the queue behind another call, whose cycle
\* has now completed.
C8_Witness ==
    \E p, q \in Procs :
        /\ pc[p] = "afterLock"
        /\ pc[q] = "awaitPrev" /\ loc[q].prev = loc[p].mine

(***************************************************************************)
(* C9                                                                      *)
(***************************************************************************)
\* C9: the status check of the dummy outpoint (64 zero hex characters and
\* '.0') answers false whatever the store holds.
C9_DummyNeverRevoked ==
    (out.call = "check" /\ out.outpoint = Outpoint(ZeroTxid, 0)) =>
        out.revoked = FALSE

\* C9 witness: the dummy outpoint was checked against an unreadable store.
C9_Witness ==
    /\ out.call = "check" /\ out.outpoint = Outpoint(ZeroTxid, 0)
    /\ file.kind = "corrupt"

(***************************************************************************)
(* C10                                                                     *)
(***************************************************************************)
\* C10: for every other outpoint the status check answers true exactly when
\* no record of the mapping persisted at the call names that outpoint.
C10_RevokedIffNoRecord ==
    (out.call = "check" /\ out.outpoint # Outpoint(ZeroTxid, 0)) =>
        (out.revoked <=>
            ~\E s \in DOMAIN Persisted : Persisted[s].outpoint = out.outpoint)

\* C10 witness: the check answered true for a commitment whose record a
\* revocation has deleted, while another record is still in the store.
C10_Witness ==
    /\ out.call = "check" /\ out.revoked
    /\ out.outpoint.txid \in DOMAIN ledger
    /\ ledger[out.outpoint.txid].spent
    /\ DOMAIN Persisted # {}

(***************************************************************************)
(* C11                                                                     *)
(***************************************************************************)
\* C11: the status check never fails - whatever the persisted store holds
\* (no file, unparseable content, content that parses but is no mapping) it
\* answers with a boolean.
C11_CheckNeverFails ==
    out.call = "check" => out.status = "ok"

(***************************************************************************)
(* C12                                                                     *)
(***************************************************************************)
\* C12: when commitment creation fails inside issueCertificate (the call to
\* the ledger ends and no output was made, by a throw or by an answer
\* without txid), the call fails at that step: the Signer is not invoked, no
\* serial is drawn, no cycle on the store is queued and the store is not
\* written.
C12_CleanAbort ==
    [][\A p \in Procs :
         (pc[p] = "createUtxo" /\ pc'[p] # "createUtxo" /\ ledger' = ledger) =>
            /\ pc'[p] = "idle"
            /\ out'.call = "issue" /\ out'.proc = p /\ out'.status = "error"
            /\ file' = file
            /\ certs' = certs
            /\ nextSerial' = nextSerial
            /\ writeMutex' = writeMutex]_vars

\* C12 witness: an issueCertificate call failed because the ledger answered
\* without txid, while the store holds a record of an earlier certificate.
C12_Witness ==
    /\ out.call = "issue" /\ out.status = "error" /\ out.error = ErrNoTxid
    /\ DOMAIN Persisted # {}

(***************************************************************************)
(* C13                                                                     *)
(***************************************************************************)
\* A ledger output is orphaned when no handler holds it as its pending
\* commitment and no signed certificate names it.
Orphaned(t) ==
    /\ t \in DOMAIN ledger
    /\ ~\E p \in Procs : pc[p] = "signing" /\ loc[p].record.outpoint.txid = t
    /\ ~\E s \in DOMAIN certs : certs[s].txid = t

\* C13: when the Signer fails after the commitment was created,
\* issueCertificate fails at that step and leaves store, ledger, certificates
\* and lock chain as they were; the commitment it created is then unspent
\* with no record and no certificate, and an orphaned commitment stays
\* unspent and without record for good.
C13_SignerFailureOrphans ==
    /\ [][\A p \in Procs :
            (pc[p] = "signing" /\ pc'[p] = "idle") =>
               /\ out'.call = "issue" /\ out'.proc = p /\ out'.status = "error"
               /\ file' = file /\ ledger' = ledger /\ certs' = certs
               /\ writeMutex' = writeMutex /\ nextSerial' = nextSerial
               /\ \A t \in DOMAIN ledger :
                     t = loc[p].record.outpoint.txid => Orphaned(t)']_vars
    /\ [](\A t \in DOMAIN ledger :
            Orphaned(t) =>
               /\ ~ledger[t].spent
               /\ ~\E s \in DOMAIN Persisted : Persisted[s].outpoint.txid = t)

\* C13 witness: issueCertificate failed at the Signer; its commitment is on
\* the ledger as an orphan while the store holds another certificate's
\* record.
C13_Witness ==
    /\ out.call = "issue" /\ out.status = "error" /\ out.error = ErrSigner
    /\ \E t \in DOMAIN ledger : Orphaned(t)
    /\ DOMAIN Persisted # {}

(***************************************************************************)
(* C14                                                                     *)
(***************************************************************************)
\* C14: issueCertificate returns success only after the record was persisted
\* under the certificate's serial - at the moment a successful call returns,
\* the persisted mapping holds a record for that serial naming the
\* certificate's commitment.
C14_PersistedOnReturn ==
    (out.call = "issue" /\ out.status = "ok") =>
        /\ out.serial \in DOMAIN Persisted
        /\ Persisted[out.serial].outpoint = out.outpoint

(***************************************************************************)
(* C15                                                                     *)
(***************************************************************************)
\* C15: a commitment creation rejected for lack of funds, and no other
\* failure, ends issueCertificate with the 'not funded' error, which the
\* certify route answers with 503; every other failure gets 500.
C15_NotFundedIffFundsRejection ==
    [][\A p \in Procs : \A outcome \in CreateOutcomes \ {"ok"} :
         CreateActionReturn(p, outcome) =>
            /\ (out'.error = ErrNotFunded <=> FundsRejection(outcome))
            /\ (CertifyStatus(out'.error) = 503 <=> FundsRejection(outcome))]_vars

(***************************************************************************)
(* C16                                                                     *)
(***************************************************************************)
\* The revokeCertificate(serial) calls that obtained a spend transaction id
\* and have not returned yet.
SpentAndDeleting(serial) ==
    {p \in Procs : /\ loc[p].op = "revoke" /\ loc[p].serial = serial
                   /\ pc[p] \in {"awaitPrev", "afterLock"}}

\* C16: for every serial, of all revokeCertificate calls for it - one after
\* the other or concurrent - at most one ever obtains a spend transaction id
\* and deletes the record; a call that fails has neither.
C16_AtMostOneDeletion ==
    /\ \A s \in Serials :
          Cardinality(SpentAndDeleting(s)) + (IF s \in revokedOk THEN 1 ELSE 0)
             <= 1
    /\ (out.call = "revoke" /\ out.status = "error") =>
          /\ out.txid = NoTxid
          /\ pc[out.proc] = "idle"

\* C16 witness: a revokeCertificate call for a serial failed at the ledger
\* after another call for the same serial had spent the commitment, deleted
\* the record and returned.
C16_Witness ==
    /\ out.call = "revoke" /\ out.status = "error" /\ out.error = ErrLedger
    /\ out.serial \in revokedOk

(***************************************************************************)
(* C17                                                                     *)
(***************************************************************************)
\* No revokeCertificate(serial) call is under way.
NoRevokeInFlight(serial) ==
    ~\E p \in Procs : /\ pc[p] # "idle" /\ loc[p].op = "revoke"
                      /\ loc[p].serial = serial

\* C17: a revocation can be retried until it succeeds - whenever the store
\* holds a record for a serial and no revokeCertificate call for it is under
\* way, also after an attempt whose spend reached the ledger but whose
\* deletion did not complete, the ledger still accepts the spend a new
\* revokeCertificate call for that serial submits, so that the retry can
\* delete the record.
C17_RetryCanSucceed ==
    \A s \in DOMAIN Persisted :
        NoRevokeInFlight(s) =>
            CanSpend(ledger, Persisted[s].outpoint,
                     UnlockingScript(toArray(Persisted[s].secret)))

(***************************************************************************)
(* C18                                                                     *)
(***************************************************************************)
\* C18: the store is never observed partially written - over every step,
\* also one in which an error interrupts a cycle, the mapping a read of the
\* store gives afterwards (status check, unlocked lookup of
\* revokeCertificate, load of the next cycle) is the mapping it gave before
\* or the mapping some queued cycle's mutation makes of that one.
C18_BeforeOrAfterCycle ==
    [][\/ loadSecrets(file') = loadSecrets(file)
       \/ \E p \in Procs :
             /\ pc[p] = "awaitPrev"
             /\ loadSecrets(file') = Closure(loc[p], loadSecrets(file))]_vars

(***************************************************************************)
(* C19                                                                     *)
(***************************************************************************)
\* The messages a failure of the engine can carry other than the not-funded
\* and the not-found one.
OtherMessages ==
    {ErrNoTxid, ErrLedger, ErrSigner, ErrRevokeNoTxid, ErrTypeError, ErrWrite}

\* C19: a failure of issueCertificate or revokeCertificate other than
\* not-funded and not-found reaches the caller as a generic message - the
\* error text of the answer is the same whatever message the underlying
\* error carries.
C19_GenericErrorText ==
    (/\ out.call \in {"issue", "revoke"} /\ out.status = "error"
     /\ out.error \in OtherMessages) =>
        \A m \in OtherMessages :
            ErrorText(out.call, m) = ErrorText(out.call, out.error)

(***************************************************************************)
(* C20                                                                     *)
(***************************************************************************)
\* C20: no two records of the store share a secret or a commitment
\* reference - every commitment got its own freshly drawn secret and names
\* its own ledger output.
C20_RecordsDistinct ==
    \A s1, s2 \in DOMAIN Persisted :
        s1 # s2 =>
            /\ Persisted[s1].secret # Persisted[s2].secret
            /\ Persisted[s1].outpoint # Persisted[s2].outpoint

\* C20 witness: the store holds the records of two certificates.
C20_Witness == Cardinality(DOMAIN Persisted) >= 2

(***************************************************************************)
(* C21                                                                     *)
(***************************************************************************)
\* C21: under every interleaving of issuances the record stored under a
\* serial belongs to that certificate - it carries the commitment reference
\* the certificate embeds, with the secret and the transaction bytes of that
\* same commitment - and a successful issueCertificate returns as
\* revocationTxid the transaction id of the reference in its certificate.
C21_RecordBelongsToCertificate ==
    /\ \A s \in DOMAIN Persisted :
          /\ s \in DOMAIN certs
          /\ Persisted[s].outpoint = certs[s]
          /\ Persisted[s].secret = toHex(Random(certs[s].txid))
          /\ Persisted[s].beef = BeefOf(TxBytes(certs[s].txid))
    /\ (out.call = "issue" /\ out.status = "ok") =>
          /\ out.outpoint = certs[out.serial]
          /\ out.txid = out.outpoint.txid

\* C21 witness: one of two concurrent issuances has returned its
\* certificate, the other has persisted its record and not yet returned.
C21_Witness ==
    /\ out.call = "issue" /\ out.status = "ok"
    /\ \E p \in Procs : pc[p] = "afterLock" /\ loc[p].op = "issue"

(***************************************************************************)
(* C22                                                                     *)
(***************************************************************************)
\* The output the outpoint names exists at index 0 and is locked by the
\* SHA-256 digest of the bytes the hex secret decodes to.
LockedBySecret(record) ==
    /\ record.outpoint.vout = 0
    /\ record.outpoint.txid \in DOMAIN ledger
    /\ ledger[record.outpoint.txid].lock =
          LockingScript(sha256(UnlockingScript(toArray(record.secret)).push))

\* C22: every record of the store, and every record a revokeCertificate
\* call has loaded and is spending with, names a commitment that was created
\* on the ledger at output index 0 and whose hash lock the unlocking script
\* built from the record's secret satisfies.
C22_SecretOpensCommitment ==
    /\ \A s \in DOMAIN Persisted : LockedBySecret(Persisted[s])
    /\ \A p \in Procs : pc[p] = "spend" => LockedBySecret(loc[p].record)

\* C22 witness: the ledger has accepted the spend a revokeCertificate call
\* built from the stored secret, while the record is still in the store.
C22_Witness ==
    \E p \in Procs :
        /\ pc[p] = "awaitPrev" /\ loc[p].op = "revoke"
        /\ ledger[loc[p].record.outpoint.txid].spent
        /\ HasRecord(loc[p].serial)

(***************************************************************************)
(* C23                                                                     *)
(***************************************************************************)
\* The call of handler p waits for a ledger call or for the Signer.
InExternalCall(p) == pc[p] \in {"createUtxo", "signing", "spend"}

\* C23: the token of the store is never held across a ledger call or a
\* Signer call - a call that waits for the ledger or the Signer has not
\* entered withSecretsLock, a call that has left withSecretsLock has
\* released its token, and every token not yet released belongs to a call
\* that is inside withSecretsLock.
C23_NoTokenAcrossExternalCalls ==
    /\ \A p \in Procs : InExternalCall(p) => loc[p].mine = NoLocals.mine
    /\ \A p \in Procs : pc[p] = "afterLock" => loc[p].mine \in resolved
    /\ \A m \in 1..writeMutex :
          m \notin resolved =>
             \E p \in Procs : pc[p] = "awaitPrev" /\ loc[p].mine = m

\* C23 witness: one call has run its cycle and released the token while
\* another call waits for the ledger or the Signer.
C23_Witness ==
    \E p, q \in Procs :
        /\ pc[p] = "afterLock" /\ loc[p].mine \in resolved
        /\ InExternalCall(q)

(***************************************************************************)
(* C24                                                                     *)
(***************************************************************************)
\* Handler p holds the token: the promise it waited for is resolved and its
\* own is not.
HoldsToken(p) ==
    /\ pc[p] = "awaitPrev"
    /\ loc[p].prev \in resolved
    /\ loc[p].mine \notin resolved

\* C24: every write of the persisted store happens inside a withSecretsLock
\* cycle - a step that changes the file is the cycle of the one call that
\* holds the token, writes what the insert of an issuance or the delete of a
\* revocation makes of the loaded mapping, and releases the token.
C24_WritesOnlyInsideLock ==
    [][file' # file =>
         \E p \in Procs :
            /\ HoldsToken(p)
            /\ \A q \in Procs \ {p} : ~HoldsToken(q)
            /\ loc[p].op \in {"issue", "revoke"}
            /\ file' = saveSecrets(Closure(loc[p], loadSecrets(file)))
            /\ loc[p].mine \in resolved']_vars

\* C24 witness: a revocation's cycle has deleted its record from a store an
\* issuance's cycle had written, and records of other certificates remain.
C24_Witness ==
    \E p \in Procs :
        /\ pc[p] = "afterLock" /\ loc[p].op = "revoke"
        /\ ~HasRecord(loc[p].serial)
        /\ DOMAIN Persisted # {}

C26_ValidOnlyIfNotRevoked ==
    (out.call = "verify" /\ out.valid) =>
        LET certificate == out.certificate[1]
        IN /\ certificate.certifier = ourPubKey
           /\ verify(certificate)
           /\ ~checkRevocationStatus(certificate.revocationOutpoint, file)
           /\ HasRecord(certificate.serialNumber)
           /\ certificate.serialNumber \notin revokedOk
           /\ ~\E p \in Procs : /\ pc[p] = "afterLock" /\ loc[p].op = "revoke"
                                /\ loc[p].serial = certificate.serialNumber

\* C26 witness: the route answered valid: true for one certificate after
\* another certificate had been revoked.
C26_Witness ==
    /\ out.call = "verify" /\ out.valid
    /\ revokedOk # {}

(***************************************************************************)
(* C27                                                                     *)
(***************************************************************************)
\* C27: withSecretsLock always releases the token - when the closure throws
\* or the save fails, the step that ends the cycle resolves the call's
\* promise and hands the error to that call, and a closure that throws
\* leaves the file as it was; so the queue is never poisoned: whenever calls
\* wait in withSecretsLock, each waits for a resolved promise or for the
\* promise of a call still waiting, and one of them can run.
C27_TokenAlwaysReleased ==
    /\ [][\A p \in Procs :
            (pc[p] = "awaitPrev" /\ pc'[p] # "awaitPrev") =>
               /\ loc[p].mine \in resolved'
               /\ pc'[p] \in {"afterLock", "idle"}
               /\ pc'[p] = "idle" =>
                     /\ out'.status = "error" /\ out'.proc = p
                     /\ out'.call = loc[p].op
               /\ ClosureThrows(file) => (file' = file /\ pc'[p] = "idle")]_vars
    /\ [](\A q \in Procs :
            pc[q] = "awaitPrev" =>
               \/ PrevSettled(q)
               \/ \E r \in Procs : pc[r] = "awaitPrev" /\ loc[r].mine = loc[q].prev)
    /\ []((\E q \in Procs : pc[q] = "awaitPrev") =>
            \E q \in Procs : pc[q] = "awaitPrev" /\ PrevSettled(q))

\* C27 witness: on a store whose closure throws, a cycle has failed and the
\* call queued behind it finds its promise resolved.
C27_Witness ==
    /\ file.kind = "null"
    /\ out.status = "error" /\ out.error = ErrTypeError
    /\ \E q \in Procs : pc[q] = "awaitPrev" /\ loc[q].prev >= 1 /\ PrevSettled(q)

(***************************************************************************)
(* C28                                                                     *)
(***************************************************************************)
\* C28: every call that has entered withSecretsLock eventually gets the
\* token and ends its cycle, however many calls are queued and whichever of
\* them fail.
C28_EveryCallGetsToken ==
    \A p \in Procs :
        (pc[p] = "awaitPrev") ~> (pc[p] \in {"afterLock", "idle"})

\* C28 witness: a call queued behind a call whose save failed finds its
\* promise resolved and can run its cycle.
C28_Witness ==
    /\ out.status = "error" /\ out.error = ErrWrite
    /\ \E q \in Procs : pc[q] = "awaitPrev" /\ loc[q].prev >= 1 /\ PrevSettled(q)

(***************************************************************************)
(* C29                                                                     *)
(***************************************************************************)
\* C29: a mutation of the store touches only its own key - the cycle of an
\* issuance sets the entry of its certificate's serial, the cycle of
\* revokeCertificate(S) removes the entry of S, every other entry of the
\* persisted mapping is the same before and after, under every interleaving
\* of issuances and revocations; no other step changes the mapping.
C29_OnlyOwnKey ==
    [][/\ \A p \in Procs :
            RunsCycle(p) =>
               /\ \A s \in (DOMAIN Persisted \cup DOMAIN Persisted') \ {loc[p].serial} :
                     /\ s \in DOMAIN Persisted /\ s \in DOMAIN Persisted'
                     /\ Persisted'[s] = Persisted[s]
               /\ loc[p].op = "issue" =>
                     /\ loc[p].serial \in DOMAIN Persisted'
                     /\ Persisted'[loc[p].serial] = loc[p].record
               /\ loc[p].op = "revoke" => loc[p].serial \notin DOMAIN Persisted'
       /\ (~\E p \in Procs : RunsCycle(p)) => Persisted' = Persisted]_vars

\* C29 witness: the cycle of one of two concurrent calls has inserted its
\* record into a store that holds another certificate's record.
C29_Witness ==
    \E p, q \in Procs :
        /\ pc[p] = "afterLock" /\ loc[p].op = "issue"
        /\ p # q /\ pc[q] # "idle"
        /\ Cardinality(DOMAIN Persisted) >= 2

(***************************************************************************)
(* C30                                                                     *)
(***************************************************************************)
\* C30: revocation is permanent - once revokeCertificate has succeeded for
\* an issued certificate, the status check of its commitment reference
\* answers true on every later call: no record of the store names that
\* reference again, and no call holds a record with it that it could store.
C30_RevocationPermanent ==
    \A s \in revokedOk :
        /\ checkRevocationStatus(certs[s], file)
        /\ (out.call = "check" /\ out.outpoint = certs[s]) => out.revoked
        /\ \A p \in Procs :
              (pc[p] # "idle" /\ loc[p].op = "issue") =>
                 loc[p].record.outpoint # certs[s]

\* C30 witness: the status check answered true for the commitment of a
\* revoked certificate while the store holds the record of a commitment that
\* was created later.
C30_Witness ==
    /\ out.call = "check" /\ out.revoked
    /\ \E s \in revokedOk :
          /\ out.outpoint = certs[s]
          /\ \E s2 \in DOMAIN Persisted :
                Persisted[s2].outpoint.txid > certs[s].txid

(***************************************************************************)
(* Specifications of the email route and of the wallet singleton           *)
(***************************************************************************)
\* A fresh process: no secret store yet, no code stored, no wallet.
InitFresh == Init /\ file = MissingFile
SpecEmail == InitFresh /\ [][NextEmail]_vars
SpecWallet == InitFresh /\ [][NextWallet]_vars

(***************************************************************************)
(* C31                                                                     *)
(***************************************************************************)
\* A code is live for an email at time t: sendEmail stored it,
\* delete-on-verified has not removed it since, and at most TTL
\* milliseconds have passed since it was stored.
LiveCode(email, t) ==
    email \in DOMAIN live /\ t <= live[email].at + TTL
\* The submitted code, as a number, equals the stored one.
Matches(email, code) ==
    ~Number(code).nan /\ Number(code) = live[email].code
\* C31: verifyCode answers verificationStatus true only if a code was
\* stored for that email by a sendEmail request and not removed since by
\* delete-on-verified, at most TTL milliseconds (10 minutes) have passed
\* since it was stored, and the submitted code equals the stored one; in
\* every other case it answers verificationStatus false.
C31_VerifiedOnlyLiveCode ==
    [][\A email \in Emails, code \in CodeInputs, elapsed \in {0, 1} :
         VerifyCode(email, code, elapsed) =>
           /\ response'.verificationStatus =>
                LiveCode(email, now') /\ Matches(email, code)
           /\ ~(LiveCode(email, now') /\ Matches(email, code)) =>
                ~response'.verificationStatus /\ response'.status = 400]_vars
\* A code sent as a number is verified as a string, exactly TTL
\* milliseconds after it was stored.
C31_Witness_VerifiedAtTtl ==
    /\ response.type = "verifyCode"
    /\ response.verificationStatus
    /\ response.email \in DOMAIN live
    /\ response.at = live[response.email].at + TTL
    /\ response.code.t = "string"

(***************************************************************************)
(* C32                                                                     *)
(***************************************************************************)
\* Caller c's getWallet has answered: with a wallet, or by throwing.
Returned(c) == wcall[c].pc = "returned"
Threw(c) == wcall[c].pc = "threw"
\* C32: the wallet is initialised at most once per process: however many
\* callers invoke getWallet before the initialisation finishes, initWallet
\* runs once, and all callers receive the same wallet instance, or all the
\* same initialisation failure.
C32_InitialisedOnce ==
    /\ Len(promises) <= 1
    /\ \A c \in Callers : Returned(c) => wcall[c].wallet = wallet
    /\ \A c, d \in Callers :
         /\ Returned(c) /\ Returned(d) => wcall[c].wallet = wcall[d].wallet
         /\ Threw(c) /\ Threw(d) => wcall[c].promise = wcall[d].promise
         /\ ~(Returned(c) /\ Threw(d))
\* An issueCertificate and a revokeCertificate called getWallet while the
\* initialisation was pending, and both received its wallet.
C32_Witness_SharedInit ==
    \E c, d \in Callers :
        /\ c # d
        /\ Returned(c) /\ wcall[c].promise = initPromise
        /\ Returned(d) /\ wcall[d].promise = initPromise
        /\ wcall[c].kind = "issueCertificate"
        /\ wcall[d].kind = "revokeCertificate"
        /\ wcall[c].wallet # NoWallet

====
